---- MODULE Spec2Model ----
(***************************************************************************)
(* Model of libcloud/dns/drivers/linode.py: the Linode DNS driver, its     *)
(* connection (which carries the error-disambiguation context) and its     *)
(* response class (which translates provider errors).                      *)
(*                                                                         *)
(* Python values are tagged records, so that None, 0 and '' are distinct   *)
(* values with Python's truthiness.  Dictionaries that the code creates,   *)
(* copies or mutates live in a heap (dicts) and are referred to by handle, *)
(* so that aliasing and copying are visible.                               *)
(***************************************************************************)
EXTENDS Integers, Sequences, FiniteSets, TLC

VARIABLES context, dicts, last, calls

vars == <<context, dicts, last, calls>>

(***************************************************************************)
(* Bounds of the model.                                                    *)
(***************************************************************************)
MaxZoneId == 2
MaxRecordId == 2
MaxItems == 2

ZoneIds == 1..MaxZoneId
RecordIds == 1..MaxRecordId
Threads == {"t1", "t2"}

(***************************************************************************)
(* Python values.                                                          *)
(***************************************************************************)
None == [t |-> "None"]
PStr(s) == [t |-> "str", v |-> s]
PInt(n) == [t |-> "int", v |-> n]
PBool(b) == [t |-> "bool", v |-> b]
PDict(h) == [t |-> "dict", ref |-> h]
isinstance_dict(value) == value.t = "dict"

\* bool(v) for the scalars of the model: None, 0 and '' are falsy.
Truthy(v) == v \notin {None, PInt(0), PStr(""), PBool(FALSE)}

EmptyDict == <<>>
Range(seq) == {seq[i] : i \in DOMAIN seq}
Put(d, k, v) == [x \in DOMAIN d \cup {k} |-> IF x = k THEN v ELSE d[x]]

\* A new dictionary object on the heap; its handle is Len of the new heap.
Alloc(heap, d) == Append(heap, d)

\* not extra, for an argument that is None or a dictionary
NotDict(heap, extra) == extra = None \/ DOMAIN heap[extra.ref] = {}

(***************************************************************************)
(* Module constants.                                                       *)
(***************************************************************************)
VALID_ZONE_EXTRA_PARAMS == <<"SOA_Email", "Refresh_sec", "Retry_sec", "Expire_sec", "status", "master_ips">>

VALID_RECORD_EXTRA_PARAMS == <<"Priority", "Weight", "Port", "Protocol", "TTL_sec">>

RecordType == {"A", "AAAA", "CNAME", "TXT", "SRV"}

RECORD_TYPE_MAP == [A |-> "A", AAAA |-> "AAAAA", CNAME |-> "CNAME", TXT |-> "TXT", SRV |-> "SRV"]

ObjectNotFound == 5

Driver == [t |-> "driver", v |-> "LinodeDNSDriver"]

(***************************************************************************)
(* Exceptions.                                                             *)
(***************************************************************************)
LinodeException(code) == [code |-> code, exc |-> "LinodeException"]
ZoneDoesNotExistError(zone_id) == [exc |-> "ZoneDoesNotExistError", zone_id |-> zone_id]
RecordDoesNotExistError(record_id) == [exc |-> "RecordDoesNotExistError", record_id |-> record_id]
KeyError(key) == [exc |-> "KeyError", key |-> key]

Raise(e) == [exc |-> e, raised |-> TRUE]
Return(v) == [value |-> v, raised |-> FALSE]

(***************************************************************************)
(* LinodeResponse._make_excp of the base class: the provider's error entry *)
(* becomes the generic provider error carrying its code.                   *)
(***************************************************************************)
Super_make_excp(error) == LinodeException(error.ERRORCODE)

\* _make_excp without the test of the error code: every provider error is
\* translated by the context.
_make_excp_any_code(ctx, error) ==
    LET result == Super_make_excp(error) IN
    IF "resource" \notin DOMAIN ctx
    THEN Raise(KeyError("resource"))
    ELSE IF ctx["resource"] = PStr("zone")
         THEN Return(ZoneDoesNotExistError(ctx["id"]))
         ELSE IF ctx["resource"] = PStr("record")
              THEN Return(RecordDoesNotExistError(ctx["id"]))
              ELSE Return(result)

(***************************************************************************)
(* LinodeDNSResponse._make_excp.  The subscript context['resource'] on a   *)
(* dictionary without that key raises KeyError: the outcome is then the    *)
(* raised KeyError instead of a returned exception object.                 *)
(***************************************************************************)
_make_excp(ctx, error) ==
    LET result == Super_make_excp(error) IN
    IF result.exc = "LinodeException" /\ result.code = ObjectNotFound
    THEN IF "resource" \notin DOMAIN ctx
         THEN Raise(KeyError("resource"))
         ELSE IF ctx["resource"] = PStr("zone")
              THEN IF "id" \notin DOMAIN ctx THEN Raise(KeyError("id"))
                   ELSE Return(ZoneDoesNotExistError(ctx["id"]))
              ELSE IF ctx["resource"] = PStr("record")
                   THEN IF "id" \notin DOMAIN ctx THEN Raise(KeyError("id"))
                        ELSE Return(RecordDoesNotExistError(ctx["id"]))
                   ELSE Return(result)
    ELSE Return(result)

(***************************************************************************)
(* connection.request(API_ROOT, params).objects[0]: the transport either   *)
(* answers with the decoded payload or reports a provider error, which the *)
(* response class translates with _make_excp and which is then raised (a   *)
(* KeyError raised inside the translation propagates the same way).        *)
(* A response is [ok |-> TRUE, data |-> payload] or [ok |-> FALSE,         *)
(* code |-> error code].                                                   *)
(***************************************************************************)
request(ctx, resp) ==
    IF resp.ok
    THEN Return(resp.data)
    ELSE LET e == _make_excp(ctx, [ERRORCODE |-> resp.code]) IN
         IF e.raised THEN Raise(e.exc) ELSE Raise(e.value)

\* LinodeDNSConnection.__init__: a new connection has an empty context.
NewContext == EmptyDict

\* LinodeDNSConnection.set_context: the context is replaced, not merged.
set_context(ctx, new) == new

(***************************************************************************)
(* Zone and Record of libcloud.dns.base: plain value objects.              *)
(***************************************************************************)
Zone(id, domain, type, ttl, extra, driver) ==
    [extra |-> extra, id |-> id, domain |-> domain, type |-> type, ttl |-> ttl, driver |-> driver]

Record(id, name, type, data, extra, zone, driver) ==
    [extra |-> extra, data |-> data, id |-> id, type |-> type, driver |-> driver, name |-> name, zone |-> zone]

\* The order of Zone.__dict__, the order in which __init__ sets the fields.
ZoneFields == <<"id", "domain", "type", "ttl", "driver", "extra">>

\* DNSDriver._string_to_record_type: the provider's string as a RecordType.
_string_to_record_type(string) == [t |-> "RecordType", v |-> string.v]

(***************************************************************************)
(* The result of a driver step: the heap and the context it leaves, the    *)
(* request parameters it sent, and what it returned or raised.             *)
(***************************************************************************)
Outcome(heap, ctx, requests, result) ==
    [context |-> ctx, heap |-> heap, result |-> result, requests |-> requests]

(***************************************************************************)
(* _merge_valid_keys: params is modified in place (the new params are part *)
(* of the result), merged is a new dictionary.                             *)
(***************************************************************************)
\* The merge without the allow-list: every key of extra is merged.
MergeLoop_all(params, merged, valid_keys, extra, i) ==
    [params |-> [k \in DOMAIN params \cup DOMAIN extra |-> IF k \in DOMAIN extra THEN extra[k] ELSE params[k]],
     merged |-> extra]

RECURSIVE MergeLoop(_, _, _, _, _)
MergeLoop(params, merged, valid_keys, extra, i) ==
    IF i > Len(valid_keys)
    THEN [params |-> params, merged |-> merged]
    ELSE LET key == valid_keys[i] IN
         IF key \in DOMAIN extra
         THEN MergeLoop(Put(params, key, extra[key]), Put(merged, key, extra[key]), valid_keys, extra, i + 1)
         ELSE MergeLoop(params, merged, valid_keys, extra, i + 1)

_merge_valid_keys(heap, params, valid_keys, extra) ==
    LET heap1 == Alloc(heap, EmptyDict)
        merged == PDict(Len(heap1))
    IN  IF NotDict(heap, extra)
        THEN [heap |-> heap1, params |-> params, merged |-> merged]
        ELSE LET m == MergeLoop(params, EmptyDict, valid_keys, heap[extra.ref], 1) IN
             [heap |-> [heap1 EXCEPT ![merged.ref] = m.merged], params |-> m.params, merged |-> merged]

(***************************************************************************)
(* _get_new_obj.  First loop: every field of obj goes to kwargs, a         *)
(* dictionary as a copy.  Second loop: every attribute that is not None    *)
(* overrides its field; a dictionary attribute is laid over the field's    *)
(* dictionary, entry by entry, skipping None entries.                      *)
(***************************************************************************)
\* The first loop without the copy: kwargs shares obj's dictionaries.
CopyFields_alias(heap, obj, fields, i, kwargs) ==
    [heap |-> heap, kwargs |-> [k \in Range(fields) |-> obj[k]]]

RECURSIVE CopyFields(_, _, _, _, _)
CopyFields(heap, obj, fields, i, kwargs) ==
    IF i > Len(fields)
    THEN [heap |-> heap, kwargs |-> kwargs]
    ELSE LET key == fields[i]
             value == obj[key]
         IN  IF isinstance_dict(value)
             THEN LET heap1 == Alloc(heap, heap[value.ref]) IN
                  CopyFields(heap1, obj, fields, i + 1, Put(kwargs, key, PDict(Len(heap1))))
             ELSE CopyFields(heap, obj, fields, i + 1, Put(kwargs, key, value))

Overlay(kwargs_value, value) ==
    [k \in DOMAIN kwargs_value \cup {x \in DOMAIN value : value[x] # None} |->
        IF k \in DOMAIN value /\ value[k] # None THEN value[k] ELSE kwargs_value[k]]

RECURSIVE ApplyAttributes(_, _, _, _, _)
ApplyAttributes(heap, kwargs, keys, attributes, i) ==
    IF i > Len(keys)
    THEN [heap |-> heap, kwargs |-> kwargs]
    ELSE LET key == keys[i]
             value == attributes[key]
         IN  IF value = None
             THEN ApplyAttributes(heap, kwargs, keys, attributes, i + 1)
             ELSE IF isinstance_dict(value)
                  THEN LET heap1 == IF key \in DOMAIN kwargs THEN heap ELSE Alloc(heap, EmptyDict)
                           kwargs_value == IF key \in DOMAIN kwargs THEN kwargs[key] ELSE PDict(Len(heap1))
                           heap2 == [heap1 EXCEPT ![kwargs_value.ref] = Overlay(heap1[kwargs_value.ref], heap1[value.ref])]
                       IN  ApplyAttributes(heap2, Put(kwargs, key, kwargs_value), keys, attributes, i + 1)
                  ELSE ApplyAttributes(heap, Put(kwargs, key, value), keys, attributes, i + 1)

_get_new_obj(heap, obj, fields, keys, attributes) ==
    LET c == CopyFields(heap, obj, fields, 1, EmptyDict)
        a == ApplyAttributes(c.heap, c.kwargs, keys, attributes, 1)
    IN  [heap |-> a.heap, obj |-> a.kwargs]

(***************************************************************************)
(* The response mapper.                                                    *)
(***************************************************************************)
_to_zone(heap, item) ==
    LET heap1 == Alloc(heap, [SOA_Email |-> item.SOA_EMAIL, status |-> item.STATUS,
                              description |-> item.DESCRIPTION])
    IN  [heap |-> heap1,
         obj |-> Zone(item.DOMAINID, item["DOMAIN"], item.TYPE, item.TTL_SEC, PDict(Len(heap1)), Driver)]

RECURSIVE _to_zones(_, _)
_to_zones(heap, items) ==
    IF items = <<>>
    THEN [heap |-> heap, objs |-> <<>>]
    ELSE LET z == _to_zone(heap, Head(items))
             rest == _to_zones(z.heap, Tail(items))
         IN  [heap |-> rest.heap, objs |-> <<z.obj>> \o rest.objs]

_to_record(heap, item, zone) ==
    LET heap1 == Alloc(heap, [protocol |-> item.PROTOCOL, ttl_sec |-> item.TTL_SEC, port |-> item.PORT,
                              weight |-> item.WEIGHT])
        type == _string_to_record_type(item.TYPE)
    IN  [heap |-> heap1,
         obj |-> Record(item.RESOURCEID, item.NAME, type, item.TARGET, PDict(Len(heap1)), zone, Driver)]

RECURSIVE _to_records(_, _, _)
_to_records(heap, items, zone) ==
    IF items = <<>>
    THEN [heap |-> heap, objs |-> <<>>]
    ELSE LET r == _to_record(heap, Head(items), zone)
             rest == _to_records(r.heap, Tail(items), zone)
         IN  [heap |-> rest.heap, objs |-> <<r.obj>> \o rest.objs]

(***************************************************************************)
(* The driver's operations.  Each takes the heap and the connection's      *)
(* context as the call finds them, the call's arguments and the            *)
(* transport's response(s), and gives the call's Outcome.                  *)
(***************************************************************************)
list_zones(heap, ctx, resp) ==
    LET params == [api_action |-> PStr("domain.list")]
        r == request(ctx, resp)
    IN  IF r.raised
        THEN Outcome(heap, ctx, <<params>>, r)
        ELSE LET m == _to_zones(heap, r.value) IN
             Outcome(m.heap, ctx, <<params>>, Return(m.objs))

list_records(heap, ctx, zone, resp) ==
    LET params == [DOMAINID |-> zone.id, api_action |-> PStr("domain.resource.list")]
        ctx1 == set_context(ctx, [id |-> zone.id, resource |-> PStr("zone")])
        r == request(ctx1, resp)
    IN  IF r.raised
        THEN Outcome(heap, ctx1, <<params>>, r)
        ELSE LET m == _to_records(heap, r.value, zone) IN
             Outcome(m.heap, ctx1, <<params>>, Return(m.objs))

\* get_zone that tests for an empty result only: of several items it
\* returns the first.
get_zone_first(heap, ctx, zone_id, resp) ==
    LET params == [api_action |-> PStr("domain.list"), DomainID |-> zone_id]
        r == request(ctx, resp)
    IN  IF r.raised
        THEN Outcome(heap, ctx, <<params>>, r)
        ELSE LET m == _to_zones(heap, r.value) IN
             IF Len(m.objs) = 0
             THEN Outcome(m.heap, ctx, <<params>>, Raise(ZoneDoesNotExistError(zone_id)))
             ELSE Outcome(m.heap, ctx, <<params>>, Return(m.objs[1]))

get_zone(heap, ctx, zone_id, resp) ==
    LET params == [api_action |-> PStr("domain.list"), DomainID |-> zone_id]
        r == request(ctx, resp)
    IN  IF r.raised
        THEN Outcome(heap, ctx, <<params>>, r)
        ELSE LET m == _to_zones(heap, r.value) IN
             IF Len(m.objs) # 1
             THEN Outcome(m.heap, ctx, <<params>>, Raise(ZoneDoesNotExistError(zone_id)))
             ELSE Outcome(m.heap, ctx, <<params>>, Return(m.objs[1]))

get_record(heap, ctx, zone_id, record_id, resp1, resp2) ==
    LET g == get_zone(heap, ctx, zone_id, resp1) IN
    IF g.result.raised
    THEN g
    ELSE LET zone == g.result.value
             params == [api_action |-> PStr("domain.resource.list"), DomainID |-> zone_id,
                        ResourceID |-> record_id]
             r == request(g.context, resp2)
             requests == g.requests \o <<params>>
         IN  IF r.raised
             THEN Outcome(g.heap, g.context, requests, r)
             ELSE LET m == _to_records(g.heap, r.value, zone) IN
                  IF Len(m.objs) # 1
                  THEN Outcome(m.heap, g.context, requests, Raise(RecordDoesNotExistError(record_id)))
                  ELSE Outcome(m.heap, g.context, requests, Return(m.objs[1]))

\* An Outcome that also names the dictionary _merge_valid_keys returned.
WithMerged(outcome, merged) ==
    [context |-> outcome.context, heap |-> outcome.heap, result |-> outcome.result,
     requests |-> outcome.requests, merged |-> merged]

create_zone(heap, ctx, domain, type, ttl, extra, resp) ==
    LET params0 == [api_action |-> PStr("domain.create"), Type |-> type, Domain |-> domain]
        params1 == IF Truthy(ttl) THEN Put(params0, "TTL_sec", ttl) ELSE params0
        m == _merge_valid_keys(heap, params1, VALID_ZONE_EXTRA_PARAMS, extra)
        r == request(ctx, resp)
    IN  IF r.raised
        THEN WithMerged(Outcome(m.heap, ctx, <<m.params>>, r), m.merged)
        ELSE LET data == r.value
                 zone == Zone(data["DomainID"], domain, type, ttl, m.merged, Driver)
             IN  WithMerged(Outcome(m.heap, ctx, <<m.params>>, Return(zone)), m.merged)

update_zone(heap, ctx, zone, domain, type, ttl, extra, resp) ==
    LET params0 == [api_action |-> PStr("domain.update"), DomainID |-> zone.id, Type |-> type]
        params1 == IF Truthy(type) THEN Put(params0, "Type", type) ELSE params0
        params2 == IF Truthy(domain) THEN Put(params1, "Domain", domain) ELSE params1
        params3 == IF Truthy(ttl) THEN Put(params2, "TTL_sec", ttl) ELSE params2
        m == _merge_valid_keys(heap, params3, VALID_ZONE_EXTRA_PARAMS, extra)
        r == request(ctx, resp)
    IN  IF r.raised
        THEN WithMerged(Outcome(m.heap, ctx, <<m.params>>, r), m.merged)
        ELSE LET n == _get_new_obj(m.heap, zone, ZoneFields, <<"domain", "type", "ttl", "extra">>,
                                   [extra |-> m.merged, domain |-> domain, type |-> type, ttl |-> ttl])
                 updated_zone == Zone(n.obj["id"], n.obj["domain"], n.obj["type"], n.obj["ttl"],
                                      n.obj["extra"], n.obj["driver"])
             IN  WithMerged(Outcome(n.heap, ctx, <<m.params>>, Return(updated_zone)), m.merged)

create_record(heap, ctx, name, zone, type, data, extra, resp) ==
    LET params == [api_action |-> PStr("domain.resource.create"), DomainID |-> zone.id,
                   Type |-> PStr(RECORD_TYPE_MAP[type.v]), Name |-> name, Target |-> data]
        m == _merge_valid_keys(heap, params, VALID_RECORD_EXTRA_PARAMS, extra)
        r == request(ctx, resp)
    IN  IF r.raised
        THEN WithMerged(Outcome(m.heap, ctx, <<m.params>>, r), m.merged)
        ELSE LET result == r.value
                 record == Record(result["ResourceID"], name, type, data, m.merged, zone, Driver)
             IN  WithMerged(Outcome(m.heap, ctx, <<m.params>>, Return(record)), m.merged)

update_record(heap, ctx, record, name, type, data, extra, resp) ==
    LET params == [api_action |-> PStr("domain.resource.update"), DomainID |-> record.zone.id,
                   ResourceID |-> record.id, Type |-> PStr(RECORD_TYPE_MAP[type.v]), Name |-> name,
                   Target |-> data]
        m == _merge_valid_keys(heap, params, VALID_RECORD_EXTRA_PARAMS, extra)
        r == request(ctx, resp)
    IN  IF r.raised
        THEN WithMerged(Outcome(m.heap, ctx, <<m.params>>, r), m.merged)
        ELSE LET result == r.value
                 new == Record(result["ResourceID"], name, type, data, m.merged, record.zone, Driver)
             IN  WithMerged(Outcome(m.heap, ctx, <<m.params>>, Return(new)), m.merged)

delete_zone(heap, ctx, zone, resp) ==
    LET params == [api_action |-> PStr("domain.delete"), DomainID |-> zone.id]
        ctx1 == set_context(ctx, [id |-> zone.id, resource |-> PStr("zone")])
        r == request(ctx1, resp)
    IN  IF r.raised
        THEN Outcome(heap, ctx1, <<params>>, r)
        ELSE Outcome(heap, ctx1, <<params>>, Return(PBool("DomainID" \in DOMAIN r.value)))

\* delete_record up to and including set_context: the parameters and the
\* context it primes.
delete_record_prime(ctx, record) ==
    [context |-> set_context(ctx, [id |-> record.id, resource |-> PStr("record")]),
     params |-> [api_action |-> PStr("domain.resource.delete"), DomainID |-> record.zone.id,
                 ResourceID |-> record.id]]

\* delete_record from the request on, under the context the connection
\* holds when the response is translated.
delete_record_request(ctx, resp) ==
    LET r == request(ctx, resp) IN
    IF r.raised THEN r ELSE Return(PBool("ResourceID" \in DOMAIN r.value))

delete_record(heap, ctx, record, resp) ==
    LET p == delete_record_prime(ctx, record) IN
    Outcome(heap, p.context, <<p.params>>, delete_record_request(p.context, resp))

(***************************************************************************)
(* The inputs: the caller's arguments and the transport's responses.       *)
(***************************************************************************)
ErrorCodes == {ObjectNotFound, 8}

ErrResponses == {[code |-> c, ok |-> FALSE] : c \in ErrorCodes}

Ok(data) == [ok |-> TRUE, data |-> data]

ZoneItem(zid) ==
    Put([SOA_EMAIL |-> PStr("a@b.com"), STATUS |-> PInt(1), DESCRIPTION |-> PStr(""), DOMAINID |-> PInt(zid),
         TYPE |-> PStr("master"), TTL_SEC |-> PInt(300)],
        "DOMAIN", PStr("a.com"))

RecordItem(rid) ==
    [TYPE |-> PStr("A"), TTL_SEC |-> PInt(0), PROTOCOL |-> PStr(""), PORT |-> PInt(80), WEIGHT |-> PInt(5),
     RESOURCEID |-> PInt(rid), NAME |-> PStr("www"), TARGET |-> PStr("1.2.3.4")]

\* The provider's listings: 0 to MaxItems items, with ids first, first + 1, ...
ZoneListResponses(first) == {Ok([i \in 1..k |-> ZoneItem(first + i - 1)]) : k \in 0..MaxItems}

RecordListResponses(first) == {Ok([i \in 1..k |-> RecordItem(first + i - 1)]) : k \in 0..MaxItems}

ZoneIdResponses == {Ok([DomainID |-> PInt(z)]) : z \in ZoneIds}

RecordIdResponses == {Ok([ResourceID |-> PInt(r)]) : r \in RecordIds}

\* The zone objects the caller holds: their extra dictionary is dicts[1].
ZoneExtras ==
    {EmptyDict, [SOA_Email |-> PStr("a@b.com"), status |-> PInt(1), description |-> PStr("")]}

CallerZone(zid, ttl) == Zone(PInt(zid), PStr("a.com"), PStr("master"), ttl, PDict(1), Driver)

\* The record objects the caller holds: their extra dictionary is dicts[2].
RecordExtra == [protocol |-> PStr(""), ttl_sec |-> PInt(0), port |-> PInt(80), weight |-> PInt(5)]

CallerRecord(rid, zone) ==
    Record(PInt(rid), PStr("www"), _string_to_record_type(PStr("A")), PStr("1.2.3.4"), PDict(2), zone, Driver)

\* The extra argument: None, or a dictionary the caller has built.
ZoneExtraArgs ==
    {EmptyDict,
     [SOA_Email |-> PStr("x@y.com"), bogus |-> PStr("x")],
     [status |-> None, Domain |-> PStr("evil.com")],
     [Refresh_sec |-> PInt(0), master_ips |-> PStr("10.0.0.1")]}

RecordExtraArgs ==
    {EmptyDict,
     [bogus |-> PStr("x"), Priority |-> PInt(10)],
     [Name |-> PStr("evil"), TTL_sec |-> PInt(0)]}

ExtraChoices(S) == {None} \cup {[t |-> "new", dict |-> d] : d \in S}

\* The heap with the caller's extra argument on it, and the argument.
WithExtra(heap, e) ==
    IF e = None
    THEN [heap |-> heap, extra |-> None]
    ELSE [heap |-> Alloc(heap, e.dict), extra |-> PDict(Len(heap) + 1)]

Domains == {None, PStr(""), PStr("b.com")}
Types == {None, PStr(""), PStr("slave")}
Ttls == {None, PInt(0), PInt(600)}
RecordTypes == {_string_to_record_type(PStr("A")), _string_to_record_type(PStr("AAAA"))}

\* The contexts a connection can hold: new, or primed by an earlier call.
Contexts ==
    {NewContext}
        \cup {[id |-> PInt(z), resource |-> PStr("zone")] : z \in ZoneIds}
        \cup {[id |-> PInt(r), resource |-> PStr("record")] : r \in RecordIds}

(***************************************************************************)
(* The state: the connection's context, the heap of dictionaries of the    *)
(* most recent call (its arguments' and its results'), the most recent     *)
(* call with its arguments, responses, requests and result, and, for calls *)
(* that interleave on one connection, each caller's position.              *)
(***************************************************************************)
\* What the state remembers of a call.
Last(op, args, heap0, o) ==
    [result |-> o.result, requests |-> o.requests,
     merged |-> IF "merged" \in DOMAIN o THEN o.merged ELSE None, op |-> op, args |-> args, heap0 |-> heap0]

ListZones ==
    \E resp \in ErrResponses \cup ZoneListResponses(1) :
        LET o == list_zones(<<>>, context, resp) IN
        /\ context' = o.context
        /\ dicts' = o.heap
        /\ last' = Last("list_zones", [resp |-> <<resp>>], <<>>, o)
        /\ UNCHANGED calls

ListRecords ==
    \E zid \in ZoneIds, resp \in ErrResponses \cup RecordListResponses(1) :
        LET heap0 == <<EmptyDict>>
            zone == CallerZone(zid, PInt(300))
            o == list_records(heap0, context, zone, resp)
        IN  /\ context' = o.context
            /\ dicts' = o.heap
            /\ last' = Last("list_records", [resp |-> <<resp>>, zone |-> zone], heap0, o)
            /\ UNCHANGED calls

GetZone ==
    \E zid \in ZoneIds, first \in ZoneIds :
        \E resp \in ErrResponses \cup ZoneListResponses(first) :
            LET o == get_zone(<<>>, context, PInt(zid), resp) IN
            /\ context' = o.context
            /\ dicts' = o.heap
            /\ last' = Last("get_zone", [zone_id |-> PInt(zid), resp |-> <<resp>>], <<>>, o)
            /\ UNCHANGED calls

\* The responses to get_record's requests: the second response is drawn
\* only when the second request is made.
GetRecordResponses(ctx, zid) ==
    UNION {IF get_zone(<<>>, ctx, PInt(zid), resp1).result.raised
           THEN {<<resp1>>}
           ELSE {<<resp1, resp2>> :
                    resp2 \in ErrResponses \cup UNION {RecordListResponses(first) : first \in RecordIds}} :
           resp1 \in ErrResponses \cup ZoneListResponses(zid)}

GetRecord ==
    \E zid \in ZoneIds, rid \in RecordIds :
        \E resps \in GetRecordResponses(context, zid) :
            LET o == get_record(<<>>, context, PInt(zid), PInt(rid), resps[1], resps[Len(resps)]) IN
            /\ context' = o.context
            /\ dicts' = o.heap
            /\ last' = Last("get_record", [zone_id |-> PInt(zid), record_id |-> PInt(rid), resp |-> resps],
                            <<>>, o)
            /\ UNCHANGED calls

CreateZoneCall(domain, type, ttl, e, resp) ==
    LET x == WithExtra(<<>>, e)
        o == create_zone(x.heap, context, domain, type, ttl, x.extra, resp)
    IN  /\ context' = o.context
        /\ dicts' = o.heap
        /\ last' = Last("create_zone",
                        [extra |-> x.extra, resp |-> <<resp>>, domain |-> domain, type |-> type, ttl |-> ttl],
                        x.heap, o)
        /\ UNCHANGED calls

UpdateZoneCall(zid, zttl, ze, domain, type, ttl, e, resp) ==
    LET zone == CallerZone(zid, zttl)
        x == WithExtra(<<ze>>, e)
        o == update_zone(x.heap, context, zone, domain, type, ttl, x.extra, resp)
    IN  /\ context' = o.context
        /\ dicts' = o.heap
        /\ last' = Last("update_zone",
                        [extra |-> x.extra, resp |-> <<resp>>, domain |-> domain, type |-> type, ttl |-> ttl,
                         zone |-> zone],
                        x.heap, o)
        /\ UNCHANGED calls

CreateRecordCall(zid, type, e, resp) ==
    LET zone == CallerZone(zid, PInt(300))
        x == WithExtra(<<EmptyDict>>, e)
        args == [extra |-> x.extra, resp |-> <<resp>>, data |-> PStr("1.2.3.4"), type |-> type,
                 name |-> PStr("www"), zone |-> zone]
        o == create_record(x.heap, context, args.name, zone, args.type, args.data, x.extra, resp)
    IN  /\ context' = o.context
        /\ dicts' = o.heap
        /\ last' = Last("create_record", args, x.heap, o)
        /\ UNCHANGED calls

UpdateRecordCall(zid, rid, type, e, resp) ==
    LET record == CallerRecord(rid, CallerZone(zid, PInt(300)))
        x == WithExtra(<<EmptyDict, RecordExtra>>, e)
        args == [extra |-> x.extra, resp |-> <<resp>>, data |-> PStr("5.6.7.8"), type |-> type,
                 name |-> PStr("mail"), record |-> record]
        o == update_record(x.heap, context, record, args.name, args.type, args.data, x.extra, resp)
    IN  /\ context' = o.context
        /\ dicts' = o.heap
        /\ last' = Last("update_record", args, x.heap, o)
        /\ UNCHANGED calls

\* In a sequence of calls: the create and update calls with few arguments.
CreateZone ==
    \E resp \in ErrResponses \cup ZoneIdResponses :
        CreateZoneCall(PStr("b.com"), PStr("master"), None, None, resp)

UpdateZone ==
    \E zid \in ZoneIds, ttl \in {None, PInt(600)} :
      \E resp \in ErrResponses \cup {Ok([DomainID |-> PInt(zid)])} :
        UpdateZoneCall(zid, PInt(300), EmptyDict, None, None, ttl, None, resp)

CreateRecord ==
    \E zid \in ZoneIds, resp \in ErrResponses \cup RecordIdResponses :
        CreateRecordCall(zid, _string_to_record_type(PStr("A")), None, resp)

UpdateRecord ==
    \E rid \in RecordIds :
      \E resp \in ErrResponses \cup {Ok([ResourceID |-> PInt(rid)])} :
        UpdateRecordCall(1, rid, _string_to_record_type(PStr("A")), None, resp)

DeleteZone ==
    \E zid \in ZoneIds :
      \E resp \in ErrResponses \cup {Ok([DomainID |-> PInt(zid)]), Ok(EmptyDict)} :
        LET heap0 == <<EmptyDict>>
            zone == CallerZone(zid, PInt(300))
            o == delete_zone(heap0, context, zone, resp)
        IN  /\ context' = o.context
            /\ dicts' = o.heap
            /\ last' = Last("delete_zone", [resp |-> <<resp>>, zone |-> zone], heap0, o)
            /\ UNCHANGED calls

DeleteRecord ==
    \E rid \in RecordIds :
      \E resp \in ErrResponses \cup {Ok([ResourceID |-> PInt(rid)]), Ok(EmptyDict)} :
        LET heap0 == <<EmptyDict, RecordExtra>>
            record == CallerRecord(rid, CallerZone(1, PInt(300)))
            o == delete_record(heap0, context, record, resp)
        IN  /\ context' = o.context
            /\ dicts' = o.heap
            /\ last' = Last("delete_record", [resp |-> <<resp>>, record |-> record], heap0, o)
            /\ UNCHANGED calls

(***************************************************************************)
(* One create or update call, with every combination of its arguments, on  *)
(* a connection in any of the contexts earlier calls can leave.            *)
(***************************************************************************)
CreateZoneAny ==
    /\ last.op = "none"
    /\ \E domain \in {PStr("b.com")}, type \in {PStr("master"), PStr("slave")}, ttl \in Ttls,
       e \in ExtraChoices(ZoneExtraArgs), resp \in ErrResponses \cup ZoneIdResponses :
        CreateZoneCall(domain, type, ttl, e, resp)

UpdateZoneAny ==
    /\ last.op = "none"
    /\ \E zid \in ZoneIds, zttl \in {None, PInt(300)}, ze \in ZoneExtras,
       domain \in Domains, type \in Types, ttl \in Ttls, e \in ExtraChoices(ZoneExtraArgs) :
      \E resp \in ErrResponses \cup {Ok([DomainID |-> PInt(zid)])} :
        UpdateZoneCall(zid, zttl, ze, domain, type, ttl, e, resp)

CreateRecordAny ==
    /\ last.op = "none"
    /\ \E zid \in ZoneIds, type \in RecordTypes, e \in ExtraChoices(RecordExtraArgs),
       resp \in ErrResponses \cup RecordIdResponses :
        CreateRecordCall(zid, type, e, resp)

UpdateRecordAny ==
    /\ last.op = "none"
    /\ \E zid \in ZoneIds, rid \in RecordIds, type \in RecordTypes, e \in ExtraChoices(RecordExtraArgs),
       resp \in ErrResponses \cup RecordIdResponses :
        UpdateRecordCall(zid, rid, type, e, resp)

(***************************************************************************)
(* Two delete_record calls on one shared connection, interleaved between   *)
(* set_context and the request.                                            *)
(***************************************************************************)
DeleteRecordPrime(th) ==
    /\ calls[th].pc \in {"idle", "done"}
    /\ \E rid \in RecordIds :
        LET record == CallerRecord(rid, CallerZone(1, PInt(300)))
            p == delete_record_prime(context, record)
        IN  /\ context' = p.context
            /\ calls' = [calls EXCEPT ![th] = [params |-> p.params, record |-> record, pc |-> "requesting"]]
    /\ UNCHANGED <<dicts, last>>

DeleteRecordRequest(th) ==
    /\ calls[th].pc = "requesting"
    /\ \E resp \in ErrResponses \cup RecordIdResponses \cup {Ok(EmptyDict)} :
        calls' = [calls EXCEPT ![th] = [result |-> delete_record_request(context, resp), resp |-> resp,
                      params |-> calls[th].params, record |-> calls[th].record, pc |-> "done"]]
    /\ UNCHANGED <<context, dicts, last>>

Init ==
    /\ context = NewContext
    /\ dicts = <<>>
    /\ last = [op |-> "none"]
    /\ calls = [th \in Threads |-> [pc |-> "idle"]]

Next ==
    \/ ListZones
    \/ ListRecords
    \/ GetZone
    \/ GetRecord
    \/ CreateZone
    \/ UpdateZone
    \/ CreateRecord
    \/ UpdateRecord
    \/ DeleteZone
    \/ DeleteRecord

Spec == Init /\ [][Next]_vars

InitCall ==
    /\ context \in Contexts
    /\ dicts = <<>>
    /\ last = [op |-> "none"]
    /\ calls = [th \in Threads |-> [pc |-> "idle"]]

NextCall ==
    \/ CreateZoneAny
    \/ UpdateZoneAny
    \/ CreateRecordAny
    \/ UpdateRecordAny

SpecCall == InitCall /\ [][NextCall]_vars

NextConc == \E th \in Threads : DeleteRecordPrime(th) \/ DeleteRecordRequest(th)

SpecConc == Init /\ [][NextConc]_vars

(***************************************************************************)
(* What a state shows of the most recent call.                             *)
(***************************************************************************)
Called == last.op # "none"

\* The response that ended the call: the answer to its last request.
FinalResp == last.args.resp[Len(last.args.resp)]

FailedWith(code) == Called /\ ~FinalResp.ok /\ FinalResp.code = code

Primed(kind) == context # NewContext /\ context["resource"] = PStr(kind)

\* An object with its extra dictionary read from the heap.
ZoneValue(heap, z) == [z EXCEPT !.extra = heap[z.extra.ref]]

RecordValue(heap, r) == [r EXCEPT !.extra = heap[r.extra.ref], !.zone = ZoneValue(heap, r.zone)]

\* The extra argument of the call as a dictionary ({} for None).
ExtraArg == IF last.args.extra = None THEN EmptyDict ELSE last.heap0[last.args.extra.ref]

(***************************************************************************)
(* C1: a provider error with code 5 under a context primed for a zone is   *)
(* raised as Zone-Not-Found carrying the primed id, under a context primed *)
(* for a record as Record-Not-Found carrying the primed id; a provider     *)
(* error with any other code is raised unchanged, whatever the context.    *)
(***************************************************************************)
TheoremC1 ==
    /\ (FailedWith(ObjectNotFound) /\ Primed("zone"))
          => last.result = Raise(ZoneDoesNotExistError(context["id"]))
    /\ (FailedWith(ObjectNotFound) /\ Primed("record"))
          => last.result = Raise(RecordDoesNotExistError(context["id"]))
    /\ \A code \in ErrorCodes \ {ObjectNotFound} :
          FailedWith(code) => last.result = Raise(LinodeException(code))

WitnessC1 ==
    /\ FailedWith(ObjectNotFound)
    /\ last.op = "get_zone"
    /\ Primed("record")
    /\ last.result = Raise(RecordDoesNotExistError(context["id"]))

(***************************************************************************)
(* C2: a provider error with code 5 under an unset context (or one of an   *)
(* unrecognized resource kind) is raised as the original generic provider  *)
(* error, and nothing else is raised.                                      *)
(***************************************************************************)
ClaimC2 ==
    (FailedWith(ObjectNotFound) /\ ~Primed("zone") /\ ~Primed("record"))
        => last.result = Raise(LinodeException(ObjectNotFound))

(***************************************************************************)
(* C3: in any sequence of calls on one connection, a Zone-Not-Found raised *)
(* by get_zone, delete_zone or list_records carries the zone id of that    *)
(* call, and a Record-Not-Found raised by delete_record carries the record *)
(* id of that call.                                                        *)
(***************************************************************************)
ClaimC3 ==
    /\ (/\ Called
        /\ last.op \in {"get_zone", "delete_zone", "list_records"}
        /\ last.result.raised
        /\ last.result.exc.exc = "ZoneDoesNotExistError")
          => last.result.exc.zone_id = (IF last.op = "get_zone" THEN last.args.zone_id ELSE last.args.zone.id)
    /\ (/\ Called
        /\ last.op = "delete_record"
        /\ last.result.raised
        /\ last.result.exc.exc = "RecordDoesNotExistError")
          => last.result.exc.record_id = last.args.record.id

(***************************************************************************)
(* C4: when delete_record calls interleave on one shared connection, each  *)
(* Record-Not-Found carries the record id of the call that raised it.      *)
(***************************************************************************)
ClaimC4 ==
    \A th \in Threads :
        (/\ calls[th].pc = "done"
         /\ calls[th].result.raised
         /\ calls[th].result.exc.exc = "RecordDoesNotExistError")
            => calls[th].result.exc.record_id = calls[th].record.id

(***************************************************************************)
(* C5: get_record, once its zone lookup has succeeded, has the context     *)
(* primed to {zone, zone_id} when it lists the records, so that a code 5   *)
(* answer to the listing is raised as Zone-Not-Found carrying zone_id.     *)
(***************************************************************************)
ClaimC5 ==
    (/\ FailedWith(ObjectNotFound)
     /\ last.op = "get_record"
     /\ Len(last.args.resp) = 2)
        => /\ context = [id |-> last.args.zone_id, resource |-> PStr("zone")]
           /\ last.result = Raise(ZoneDoesNotExistError(last.args.zone_id))

MappedZone(item) ==
    [extra |-> [SOA_Email |-> item.SOA_EMAIL, status |-> item.STATUS, description |-> item.DESCRIPTION],
     id |-> item.DOMAINID, domain |-> item["DOMAIN"], type |-> item.TYPE, ttl |-> item.TTL_SEC,
     driver |-> Driver]

MappedRecord(item, zone) ==
    [extra |-> [protocol |-> item.PROTOCOL, ttl_sec |-> item.TTL_SEC, port |-> item.PORT, weight |-> item.WEIGHT],
     data |-> item.TARGET, id |-> item.RESOURCEID, type |-> [t |-> "RecordType", v |-> item.TYPE.v],
     driver |-> Driver, name |-> item.NAME, zone |-> zone]

(***************************************************************************)
(* C6: get_zone returns the Zone mapped from the response's item if and    *)
(* only if the response holds exactly one item, and raises Zone-Not-Found  *)
(* carrying zone_id otherwise; get_record, after a successful zone lookup, *)
(* returns the Record mapped from the listing's item if and only if the    *)
(* listing holds exactly one item, and raises Record-Not-Found carrying    *)
(* record_id otherwise.                                                    *)
(***************************************************************************)
TheoremC6 ==
    /\ (Called /\ last.op = "get_zone" /\ FinalResp.ok)
          => LET items == FinalResp.data IN
             /\ ~last.result.raised <=> Len(items) = 1
             /\ Len(items) = 1 => ZoneValue(dicts, last.result.value) = MappedZone(items[1])
             /\ Len(items) # 1 => last.result = Raise(ZoneDoesNotExistError(last.args.zone_id))
    /\ (Called /\ last.op = "get_record" /\ Len(last.args.resp) = 2 /\ FinalResp.ok)
          => LET items == FinalResp.data IN
             /\ ~last.result.raised <=> Len(items) = 1
             /\ Len(items) = 1 =>
                    RecordValue(dicts, last.result.value)
                        = MappedRecord(items[1], MappedZone(last.args.resp[1].data[1]))
             /\ Len(items) # 1 => last.result = Raise(RecordDoesNotExistError(last.args.record_id))

WitnessC6 ==
    /\ Called
    /\ last.op = "get_record"
    /\ Len(last.args.resp) = 2
    /\ FinalResp.ok
    /\ Len(FinalResp.data) = 2
    /\ last.result = Raise(RecordDoesNotExistError(last.args.record_id))

(***************************************************************************)
(* C7: the parameters update_zone sends always hold DomainID = zone.id,    *)
(* and hold the key Domain, Type or TTL_sec only when the argument domain, *)
(* type or ttl was supplied with a truthy value.                           *)
(***************************************************************************)
ClaimC7 ==
    (Called /\ last.op = "update_zone")
        => LET params == last.requests[1] IN
           /\ "DomainID" \in DOMAIN params /\ params["DomainID"] = last.args.zone.id
           /\ "Domain" \in DOMAIN params => Truthy(last.args.domain)
           /\ "Type" \in DOMAIN params => Truthy(last.args.type)
           /\ "TTL_sec" \in DOMAIN params => Truthy(last.args.ttl)

Overridden(k) == k \in DOMAIN ExtraArg /\ k \in Range(VALID_ZONE_EXTRA_PARAMS) /\ ExtraArg[k] # None

(***************************************************************************)
(* C8: the Zone update_zone returns has, for each of domain, type and ttl, *)
(* the prior zone's value when the argument is None and the argument's     *)
(* value otherwise; its id, its driver and every prior extra entry that    *)
(* the call does not override are the prior zone's; and the prior Zone is  *)
(* left as it was.                                                         *)
(***************************************************************************)
TheoremC8 ==
    (Called /\ last.op = "update_zone" /\ ~last.result.raised)
        => LET before == ZoneValue(last.heap0, last.args.zone)
               after == ZoneValue(dicts, last.args.zone)
               new == ZoneValue(dicts, last.result.value)
           IN  /\ \A f \in {"domain", "type", "ttl"} :
                      new[f] = IF last.args[f] = None THEN before[f] ELSE last.args[f]
               /\ new.id = before.id
               /\ new.driver = before.driver
               /\ \A k \in DOMAIN before.extra :
                      /\ k \in DOMAIN new.extra
                      /\ ~Overridden(k) => new.extra[k] = before.extra[k]
               /\ after = before

WitnessC8 ==
    /\ Called
    /\ last.op = "update_zone"
    /\ ~last.result.raised
    /\ last.args.ttl = None
    /\ last.args.domain = PStr("")
    /\ Overridden("SOA_Email")
    /\ ZoneValue(last.heap0, last.args.zone).ttl = PInt(300)
    /\ ZoneValue(last.heap0, last.args.zone).extra # EmptyDict
    /\ ZoneValue(dicts, last.result.value).extra["SOA_Email"] = PStr("x@y.com")

AllowList ==
    IF last.op \in {"create_zone", "update_zone"}
    THEN Range(VALID_ZONE_EXTRA_PARAMS)
    ELSE Range(VALID_RECORD_EXTRA_PARAMS)

(***************************************************************************)
(* C9: for create_zone and update_zone (zone allow-list) and create_record *)
(* and update_record (record allow-list), the merged result holds exactly  *)
(* the keys of extra that are in the allow-list, with the caller's values, *)
(* each of them is in the request parameters with the same value, and a    *)
(* key of extra outside the allow-list is put in neither.                  *)
(***************************************************************************)
TheoremC9 ==
    (Called /\ last.op \in {"create_zone", "update_zone", "create_record", "update_record"})
        => LET params == last.requests[1]
               merged == dicts[last.merged.ref]
           IN  /\ DOMAIN merged = DOMAIN ExtraArg \cap AllowList
               /\ \A k \in DOMAIN merged :
                      /\ merged[k] = ExtraArg[k]
                      /\ k \in DOMAIN params
                      /\ params[k] = ExtraArg[k]
               /\ \A k \in DOMAIN ExtraArg \ AllowList :
                      /\ k \notin DOMAIN merged
                      /\ k \in DOMAIN params => params[k] # ExtraArg[k]

WitnessC9 ==
    /\ Called
    /\ last.op = "create_zone"
    /\ DOMAIN ExtraArg = {"SOA_Email", "bogus"}
    /\ "SOA_Email" \in DOMAIN last.requests[1]
    /\ "bogus" \notin DOMAIN last.requests[1]
    /\ ~last.result.raised
    /\ DOMAIN ZoneValue(dicts, last.result.value).extra = {"SOA_Email"}

ParamOf == [domain |-> "Domain", type |-> "Type", ttl |-> "TTL_sec"]

(***************************************************************************)
(* C10: a field of the Zone update_zone returns differs from the prior     *)
(* zone's only if the field's new value was in the request parameters of   *)
(* the call.                                                               *)
(***************************************************************************)
ClaimC10 ==
    (Called /\ last.op = "update_zone" /\ ~last.result.raised)
        => LET params == last.requests[1]
               before == ZoneValue(last.heap0, last.args.zone)
               new == ZoneValue(dicts, last.result.value)
           IN  \A f \in DOMAIN ParamOf :
                   new[f] # before[f] => (ParamOf[f] \in DOMAIN params /\ params[ParamOf[f]] = new[f])
====
